---- MODULE Spec2Model ----
(***************************************************************************)
(* Model of Shibalik_drone.py: the telemetry decoder parse_telemetry, the  *)
(* crash predicate check_crash and the receive/decide/send loop of         *)
(* drone_control.                                                          *)
(*                                                                         *)
(* Numbers.  Every float of the program (x, y, battery, gyro, wind, dust)  *)
(* is a fixed-point integer counting hundredths: 0.8 is 80, 1e5 is         *)
(* 10000000.  Arithmetic on them is exact.  speed and the altitude of a    *)
(* command are whole numbers and are kept in units.                        *)
(*                                                                         *)
(* prev is a history variable: the speed and movement the loop held when   *)
(* it took the last message off the socket.  verdict is the value the      *)
(* last call of check_crash returned.  nrecv and nsent count the messages  *)
(* received and the commands sent.                                         *)
(*                                                                         *)
(* Text.  A telemetry string is the tuple of the substrings the regular    *)
(* expression captures, plus whether the expression matches at all.  A     *)
(* captured numeric substring is a token: either text float() accepts      *)
(* (ok, with its value) or text of the right characters that float()       *)
(* rejects with ValueError ("1.2.3", "--5", the empty piece of "1,,2").    *)
(***************************************************************************)
EXTENDS Integers, Sequences, FiniteSets, TLC

VARIABLES pc, current_movement, speed, target_altitude, response, parsed,
          verdict, command, prev, nrecv, nsent

vars == <<pc, current_movement, speed, target_altitude, response, parsed,
          verdict, command, prev, nrecv, nsent>>

(* ------------------------------ bounds --------------------------------- *)

MaxEnvelopes == 3

MaxCycles == 6

MaxGyroLen == 4

(* ------------------------------ helpers -------------------------------- *)

Fx(n) == n * 100

Abs(n) == IF n < 0 THEN -n ELSE n

Min(a, b) == IF a < b THEN a ELSE b

Max(a, b) == IF a > b THEN a ELSE b

None == [tag |-> "None"]

(* ------------------------- telemetry strings --------------------------- *)

Tok(v) == [ok |-> TRUE, v |-> v]

BadTok == [ok |-> FALSE, v |-> 0]

Toks(s) == [i \in 1..Len(s) |-> Tok(s[i])]

Tel(x, y, bat, gyr, wind, dust, sensor) ==
    [matched |-> TRUE, x |-> x, y |-> y, bat |-> bat, gyr |-> gyr,
     wind |-> wind, dust |-> dust, sensor |-> sensor]

GoodTel(x, y, bat, g, wind, dust, sensor) ==
    Tel(Tok(x), Tok(y), Tok(bat), Toks(g), Tok(wind), Tok(dust), sensor)

NoMatch ==
    [matched |-> FALSE, x |-> BadTok, y |-> BadTok, bat |-> BadTok,
     gyr |-> <<>>, wind |-> BadTok, dust |-> BadTok, sensor |-> ""]

(* ---------------------------- parse_telemetry -------------------------- *)

AllOk(t) ==
    /\ t.x.ok /\ t.y.ok /\ t.bat.ok /\ t.wind.ok /\ t.dust.ok
    /\ \A i \in 1..Len(t.gyr) : t.gyr[i].ok

parse_telemetry(t) ==
    IF ~t.matched THEN None
    ELSE IF ~AllOk(t) THEN None
    ELSE [x |-> t.x.v, y |-> t.y.v, battery |-> t.bat.v,
          gyro |-> [i \in 1..Len(t.gyr) |-> t.gyr[i].v],
          wind |-> t.wind.v, dust |-> t.dust.v, sensor |-> t.sensor]

(* ------------------------------ check_crash ---------------------------- *)

SqrtExceeds(s, m) == s > m * m

TiltSquared(g) == g[1] * g[1] + g[2] * g[2] + g[3] * g[3]

check_crash_red_inclusive(p) ==
    IF p.battery <= 0 THEN "True"
    ELSE IF p.sensor = "RED" /\ p.y >= Fx(3) THEN "True"
    ELSE IF p.sensor = "YELLOW" /\ p.y > Fx(1000) THEN "True"
    ELSE IF p.y < 0 THEN "True"
    ELSE IF Abs(p.x) > Fx(100000) THEN "True"
    ELSE IF Len(p.gyro) # 3 THEN "ValueError"
    ELSE IF SqrtExceeds(TiltSquared(p.gyro), Fx(1)) THEN "True"
    ELSE "False"

check_crash_dust(p) ==
    IF p.battery <= 0 \/ p.dust > 0 THEN "True"
    ELSE IF p.sensor = "RED" /\ p.y > Fx(3) THEN "True"
    ELSE IF p.sensor = "YELLOW" /\ p.y > Fx(1000) THEN "True"
    ELSE IF p.y < 0 THEN "True"
    ELSE IF Abs(p.x) > Fx(100000) THEN "True"
    ELSE IF Len(p.gyro) # 3 THEN "ValueError"
    ELSE IF SqrtExceeds(TiltSquared(p.gyro), Fx(1)) THEN "True"
    ELSE "False"

check_crash_no_yellow_ceiling(p) ==
    IF p.battery <= 0 THEN "True"
    ELSE IF p.sensor = "RED" /\ p.y > Fx(3) THEN "True"
    ELSE IF p.y < 0 THEN "True"
    ELSE IF Abs(p.x) > Fx(100000) THEN "True"
    ELSE IF Len(p.gyro) # 3 THEN "ValueError"
    ELSE IF SqrtExceeds(TiltSquared(p.gyro), Fx(1)) THEN "True"
    ELSE "False"

check_crash(p) ==
    IF p.battery <= 0 THEN "True"
    ELSE IF p.sensor = "RED" /\ p.y > Fx(3) THEN "True"
    ELSE IF p.sensor = "YELLOW" /\ p.y > Fx(1000) THEN "True"
    ELSE IF p.y < 0 THEN "True"
    ELSE IF Abs(p.x) > Fx(100000) THEN "True"
    ELSE IF Len(p.gyro) # 3 THEN "ValueError"
    ELSE IF SqrtExceeds(TiltSquared(p.gyro), Fx(1)) THEN "True"
    ELSE "False"

(* ---------------------- drone_control: the policy --------------------- *)

TargetAltitude(sensor) ==
    IF sensor = "RED" THEN 2
    ELSE IF sensor = "YELLOW" THEN 999
    ELSE 2000

FloorHalf(a) == Fx(a \div 200)

Truncate(d) == IF d >= 0 THEN Fx(d \div 100) ELSE -Fx((-d) \div 100)

MaxDeltaCeiling(delta_y) ==
    Max(Fx(10), Min(Fx(100), Fx((Abs(delta_y) + 199) \div 200)))

MaxDeltaUncapped(delta_y) == Max(Fx(10), FloorHalf(Abs(delta_y)))

MaxDelta(delta_y) == Max(Fx(10), Min(Fx(100), FloorHalf(Abs(delta_y))))

AltitudeCmdNoDeadBand(target, y) ==
    LET delta_y == Fx(target) - y
        max_delta == MaxDelta(delta_y)
        altitude_cmd == Max(-max_delta, Min(max_delta, Truncate(delta_y)))
    IN  altitude_cmd \div 100

AltitudeCmd(target, y) ==
    LET delta_y == Fx(target) - y
        max_delta == MaxDelta(delta_y)
        altitude_cmd == Max(-max_delta, Min(max_delta, Truncate(delta_y)))
    IN  IF Abs(delta_y) < Fx(10) THEN 0 ELSE altitude_cmd \div 100

Flip(m) == IF m = "fwd" THEN "rev" ELSE "fwd"

SpeedUpdateNoFloor(s, battery, gx) ==
    IF battery < Fx(20) THEN 1
    ELSE IF Abs(gx) >= 80 THEN s - 1
    ELSE IF Abs(gx) < 50 /\ battery > Fx(20) THEN Min(5, s + 1)
    ELSE s

SpeedUpdateTiltFirst(s, battery, gx) ==
    IF Abs(gx) >= 80 THEN Max(1, s - 1)
    ELSE IF battery < Fx(20) THEN 1
    ELSE IF Abs(gx) < 50 /\ battery > Fx(20) THEN Min(5, s + 1)
    ELSE s

SpeedUpdateInclusiveCalm(s, battery, gx) ==
    IF battery < Fx(20) THEN 1
    ELSE IF Abs(gx) >= 80 THEN Max(1, s - 1)
    ELSE IF Abs(gx) <= 50 /\ battery > Fx(20) THEN Min(5, s + 1)
    ELSE s

SpeedUpdateDoubleStep(s, battery, gx) ==
    IF battery < Fx(20) THEN 1
    ELSE IF Abs(gx) >= 80 THEN Max(1, s - 1)
    ELSE IF Abs(gx) < 50 /\ battery > Fx(20) THEN Min(5, s + 2)
    ELSE s

SpeedUpdate(s, battery, gx) ==
    IF battery < Fx(20) THEN 1
    ELSE IF Abs(gx) >= 80 THEN Max(1, s - 1)
    ELSE IF Abs(gx) < 50 /\ battery > Fx(20) THEN Min(5, s + 1)
    ELSE s

TiltMovementStrict(m, battery, gx) ==
    IF battery < Fx(20) THEN m
    ELSE IF Abs(gx) > 80 THEN Flip(m)
    ELSE m

TiltMovement(m, battery, gx) ==
    IF battery < Fx(20) THEN m
    ELSE IF Abs(gx) >= 80 THEN Flip(m)
    ELSE m

LateralOverrideInclusive(m, x) ==
    IF x >= Fx(90000) THEN "rev"
    ELSE IF x <= -Fx(90000) THEN "fwd"
    ELSE m

LateralOverride(m, x) ==
    IF x > Fx(90000) THEN "rev"
    ELSE IF x < -Fx(90000) THEN "fwd"
    ELSE m

(* --------------------------- inbound messages -------------------------- *)

Env(status, t) ==
    [json |-> TRUE, has_status |-> TRUE, status |-> status,
     has_telemetry |-> TRUE, telemetry |-> t]

InvalidJson ==
    [json |-> FALSE, has_status |-> FALSE, status |-> "",
     has_telemetry |-> FALSE, telemetry |-> NoMatch]

NoStatus ==
    [json |-> TRUE, has_status |-> FALSE, status |-> "",
     has_telemetry |-> TRUE, telemetry |-> NoMatch]

NoTelemetry(status) ==
    [json |-> TRUE, has_status |-> TRUE, status |-> status,
     has_telemetry |-> FALSE, telemetry |-> NoMatch]

XVals == {-9500000, -9000000, 0, 9000000, 9000001, 10000001}

YVals == {-1, 0, 300, 301, 99000, 100000, 100001, 199500}

BatVals == {0, 1500, 2000, 5000}

GxVals == {-90, -50, 0, 49, 79, 80}

TiltTriples == {<<0, 0, 0>>, <<50, 50, 50>>, <<60, 60, 60>>}

WindVals == {0, 5}

DustVals == {0, 5}

Sensors == {"RED", "YELLOW", "GREEN"}

PolicyTelemetry ==
    {GoodTel(x, 0, b, <<gx, 0, 0>>, 0, 0, "GREEN") :
        x \in XVals, b \in BatVals, gx \in GxVals}

ZoneTelemetry ==
    {GoodTel(0, y, 5000, g, 0, 0, s) :
        y \in YVals, g \in TiltTriples, s \in Sensors}

WeatherTelemetry ==
    {GoodTel(0, 0, 5000, <<0, 0, 0>>, w, d, "GREEN") :
        w \in WindVals, d \in DustVals}

GyroOfLen(n) == [i \in 1..n |-> 0]

OddGyroTelemetry ==
    {GoodTel(0, y, b, GyroOfLen(n), 0, 0, "GREEN") :
        y \in {-1, 0}, b \in {0, 5000}, n \in (1..MaxGyroLen) \ {3}}

BadTokenTelemetry ==
    LET t == GoodTel(0, 0, 5000, <<0, 0, 0>>, 0, 0, "GREEN")
    IN  {[t EXCEPT !.x = BadTok], [t EXCEPT !.y = BadTok],
         [t EXCEPT !.bat = BadTok], [t EXCEPT !.gyr[2] = BadTok],
         [t EXCEPT !.wind = BadTok], [t EXCEPT !.dust = BadTok]}

ScenarioTelemetry == GoodTel(0, 0, 5000, <<90, 0, 0>>, 0, 0, "GREEN")

Telemetry ==
    PolicyTelemetry \cup ZoneTelemetry \cup WeatherTelemetry
        \cup OddGyroTelemetry
        \cup BadTokenTelemetry \cup {NoMatch, ScenarioTelemetry}

Envelopes ==
    {Env("active", t) : t \in Telemetry}
        \cup {Env("crashed", t) :
                t \in {NoMatch, GoodTel(0, 0, 5000, <<0, 0, 0>>, 0, 0, "GREEN")}}
        \cup {InvalidJson, NoStatus, NoTelemetry("active"),
              NoTelemetry("crashed")}

(* ----------------------- drone_control: the loop ----------------------- *)

DispatchIgnoresVerdict(r) ==
    IF ~r.json THEN "JSONDecodeError"
    ELSE IF ~r.has_status THEN "Exception"
    ELSE IF r.status = "crashed" THEN "crashed"
    ELSE IF ~r.has_telemetry THEN "Exception"
    ELSE LET p == parse_telemetry(r.telemetry)
         IN  IF p = None THEN "continue"
             ELSE IF check_crash(p) = "ValueError" THEN "Exception"
             ELSE "command"

DispatchBreaksOnNoRecord(r) ==
    IF ~r.json THEN "JSONDecodeError"
    ELSE IF ~r.has_status THEN "Exception"
    ELSE IF r.status = "crashed" THEN "crashed"
    ELSE IF ~r.has_telemetry THEN "Exception"
    ELSE LET p == parse_telemetry(r.telemetry)
         IN  IF p = None THEN "crashed"
             ELSE IF check_crash(p) = "ValueError" THEN "Exception"
             ELSE IF check_crash(p) = "True" THEN "crash"
             ELSE "command"

DispatchJsonErrorFatal(r) ==
    IF ~r.json THEN "Exception"
    ELSE IF ~r.has_status THEN "Exception"
    ELSE IF r.status = "crashed" THEN "crashed"
    ELSE IF ~r.has_telemetry THEN "Exception"
    ELSE LET p == parse_telemetry(r.telemetry)
         IN  IF p = None THEN "continue"
             ELSE IF check_crash(p) = "ValueError" THEN "Exception"
             ELSE IF check_crash(p) = "True" THEN "crash"
             ELSE "command"

Dispatch(r) ==
    IF ~r.json THEN "JSONDecodeError"
    ELSE IF ~r.has_status THEN "Exception"
    ELSE IF r.status = "crashed" THEN "crashed"
    ELSE IF ~r.has_telemetry THEN "Exception"
    ELSE LET p == parse_telemetry(r.telemetry)
         IN  IF p = None THEN "continue"
             ELSE IF check_crash(p) = "ValueError" THEN "Exception"
             ELSE IF check_crash(p) = "True" THEN "crash"
             ELSE "command"

Dispatched(label) == {r \in Envelopes : Dispatch(r) = label}

InvalidJsonEnvelopes == Dispatched("JSONDecodeError")

CrashedEnvelopes == Dispatched("crashed")

UndecodableEnvelopes == Dispatched("continue")

CrashVerdictEnvelopes == Dispatched("crash")

ExceptionEnvelopes == Dispatched("Exception")

CommandEnvelopes == Dispatched("command")

Init ==
    /\ pc = "recv"
    /\ current_movement = "fwd"
    /\ speed = 3
    /\ target_altitude = 2000
    /\ response = None
    /\ parsed = None
    /\ verdict = "None"
    /\ command = None
    /\ prev = [speed |-> 3, movement |-> "fwd"]
    /\ nrecv = 0
    /\ nsent = 0

ReceivingWhilePending == pc \in {"recv", "send"} /\ nrecv < MaxEnvelopes

Receiving == pc = "recv" /\ nrecv < MaxEnvelopes

Received(r) ==
    /\ response' = r
    /\ nrecv' = nrecv + 1
    /\ prev' = [speed |-> speed, movement |-> current_movement]

RecvClosed ==
    /\ Receiving
    /\ pc' = "done"
    /\ UNCHANGED <<current_movement, speed, target_altitude, response,
                   parsed, verdict, command, prev, nrecv, nsent>>

RecvInvalidJson ==
    \E r \in InvalidJsonEnvelopes :
        /\ Receiving
        /\ Received(r)
        /\ UNCHANGED <<pc, current_movement, speed, target_altitude, parsed,
                       verdict, command, nsent>>

RecvCrashedStatus ==
    \E r \in CrashedEnvelopes :
        /\ Receiving
        /\ Received(r)
        /\ pc' = "done"
        /\ UNCHANGED <<current_movement, speed, target_altitude, parsed,
                       verdict, command, nsent>>

RecvParseFail ==
    \E r \in UndecodableEnvelopes :
        /\ Receiving
        /\ Received(r)
        /\ parsed' = parse_telemetry(r.telemetry)
        /\ UNCHANGED <<pc, current_movement, speed, target_altitude, verdict,
                       command, nsent>>

RecvCrashVerdict ==
    \E r \in CrashVerdictEnvelopes :
        /\ Receiving
        /\ Received(r)
        /\ parsed' = parse_telemetry(r.telemetry)
        /\ verdict' = check_crash(parsed')
        /\ pc' = "done"
        /\ UNCHANGED <<current_movement, speed, target_altitude, command,
                       nsent>>

RecvException ==
    \E r \in ExceptionEnvelopes :
        /\ Receiving
        /\ Received(r)
        /\ parsed' = IF r.has_status /\ r.has_telemetry
                     THEN parse_telemetry(r.telemetry) ELSE parsed
        /\ pc' = "done"
        /\ UNCHANGED <<current_movement, speed, target_altitude, verdict,
                       command, nsent>>

RecvCommand ==
    \E r \in CommandEnvelopes :
        /\ Receiving
        /\ Received(r)
        /\ parsed' = parse_telemetry(r.telemetry)
        /\ verdict' = check_crash(parsed')
        /\ target_altitude' = TargetAltitude(parsed'.sensor)
        /\ speed' = SpeedUpdate(speed, parsed'.battery, parsed'.gyro[1])
        /\ current_movement' =
               LateralOverride(
                   TiltMovement(current_movement, parsed'.battery,
                                parsed'.gyro[1]),
                   parsed'.x)
        /\ command' = [speed |-> speed',
                       altitude |-> AltitudeCmd(target_altitude', parsed'.y),
                       movement |-> current_movement']
        /\ pc' = "send"
        /\ UNCHANGED nsent

SendTwice ==
    /\ pc = "send"
    /\ nsent' = nsent + 2
    /\ pc' = "recv"
    /\ UNCHANGED <<current_movement, speed, target_altitude, response,
                   parsed, verdict, command, prev, nrecv>>

Send ==
    /\ pc = "send"
    /\ nsent' = nsent + 1
    /\ pc' = "recv"
    /\ UNCHANGED <<current_movement, speed, target_altitude, response,
                   parsed, verdict, command, prev, nrecv>>

SendClosed ==
    /\ pc = "send"
    /\ pc' = "done"
    /\ UNCHANGED <<current_movement, speed, target_altitude, response,
                   parsed, verdict, command, prev, nrecv, nsent>>

Next ==
    \/ RecvClosed
    \/ RecvInvalidJson
    \/ RecvCrashedStatus
    \/ RecvParseFail
    \/ RecvCrashVerdict
    \/ RecvException
    \/ RecvCommand
    \/ Send
    \/ SendClosed

Spec == Init /\ [][Next]_vars

(* ------------- check_crash applied to a record on its own -------------- *)

GyroVals == {-100, 0, 50, 60, 80}

CrashXVals == {-10000001, -10000000, 0, 10000000, 10000001}

CrashSensors == Sensors \cup {"BLUE"}

CrashRecords ==
    {[x |-> x, y |-> y, battery |-> b, gyro |-> <<gx, gy, gz>>,
      wind |-> 0, dust |-> 0, sensor |-> s] :
        x \in CrashXVals, y \in YVals, b \in BatVals,
        gx \in GyroVals, gy \in GyroVals, gz \in GyroVals,
        s \in CrashSensors}

InitCheckCrash ==
    /\ pc = "check_crash"
    /\ parsed \in CrashRecords
    /\ current_movement = "fwd"
    /\ speed = 3
    /\ target_altitude = 2000
    /\ response = None
    /\ verdict = "None"
    /\ command = None
    /\ prev = [speed |-> 3, movement |-> "fwd"]
    /\ nrecv = 0
    /\ nsent = 0

CallCheckCrash ==
    /\ pc = "check_crash"
    /\ verdict' = check_crash(parsed)
    /\ pc' = "returned"
    /\ UNCHANGED <<current_movement, speed, target_altitude, response,
                   parsed, command, prev, nrecv, nsent>>

SpecCheckCrash == InitCheckCrash /\ [][CallCheckCrash]_vars

(* ------------- the policy applied to a record on its own --------------- *)

Policy(p) ==
    /\ target_altitude' = TargetAltitude(p.sensor)
    /\ speed' = SpeedUpdate(speed, p.battery, p.gyro[1])
    /\ current_movement' =
           LateralOverride(
               TiltMovement(current_movement, p.battery, p.gyro[1]), p.x)
    /\ command' = [speed |-> speed',
                   altitude |-> AltitudeCmd(target_altitude', p.y),
                   movement |-> current_movement']

Targets == {TargetAltitude(s) : s \in CrashSensors}

AltDeltas ==
    {0, 1, 50, 99, 100, 500, 550, 999, 1000, 1001, 1050, 1099, 1100, 1999,
     2000, 2050, 2199, 2200, 5000, 19999, 20000, 20050, 50000}

AltYVals ==
    {Fx(t) - d : t \in Targets, d \in AltDeltas}
        \cup {Fx(t) + d : t \in Targets, d \in AltDeltas}

PolicyRecords ==
    {p \in [x : {0}, y : AltYVals, battery : {5000},
            gyro : {<<0, 0, 0>>, <<80, 0, 0>>}, wind : {0}, dust : {0},
            sensor : CrashSensors] :
        check_crash(p) = "False"}

InitPolicy ==
    /\ pc = "policy"
    /\ parsed \in PolicyRecords
    /\ current_movement \in {"fwd", "rev"}
    /\ speed \in 1..5
    /\ target_altitude \in Targets
    /\ response = None
    /\ verdict = "False"
    /\ command = None
    /\ prev = [speed |-> speed, movement |-> current_movement]
    /\ nrecv = 0
    /\ nsent = 0

ApplyPolicy ==
    /\ pc = "policy"
    /\ Policy(parsed)
    /\ pc' = "send"
    /\ UNCHANGED <<response, parsed, verdict, prev, nrecv, nsent>>

SpecPolicy == InitPolicy /\ [][ApplyPolicy]_vars

(* ------------- a longer session after a low-battery cycle -------------- *)

LowBatteryTelemetry == GoodTel(0, 0, 1500, <<0, 0, 0>>, 0, 0, "GREEN")

LongRunTelemetry ==
    {GoodTel(0, 0, b, <<gx, 0, 0>>, 0, 0, "GREEN") :
        b \in {1500, 5000}, gx \in {0, 79, 80}} \cup {NoMatch}

LongRunEnvelopes == {Env("active", t) : t \in LongRunTelemetry}

LongRunCommandEnvelopes ==
    {r \in LongRunEnvelopes : Dispatch(r) = "command"}

LongRunUndecodableEnvelopes ==
    {r \in LongRunEnvelopes : Dispatch(r) = "continue"}

InitAfterLowBattery ==
    /\ pc = "recv"
    /\ current_movement = "fwd"
    /\ speed = 1
    /\ target_altitude = 2000
    /\ response = Env("active", LowBatteryTelemetry)
    /\ parsed = parse_telemetry(LowBatteryTelemetry)
    /\ verdict = "False"
    /\ command = [speed |-> 1, altitude |-> 100, movement |-> "fwd"]
    /\ prev = [speed |-> 3, movement |-> "fwd"]
    /\ nrecv = 1
    /\ nsent = 1

LongRunning == pc = "recv" /\ nrecv < MaxCycles

LongRunCommand ==
    \E r \in LongRunCommandEnvelopes :
        /\ LongRunning
        /\ Received(r)
        /\ parsed' = parse_telemetry(r.telemetry)
        /\ verdict' = check_crash(parsed')
        /\ Policy(parsed')
        /\ pc' = "send"
        /\ UNCHANGED nsent

LongRunParseFail ==
    \E r \in LongRunUndecodableEnvelopes :
        /\ LongRunning
        /\ Received(r)
        /\ parsed' = parse_telemetry(r.telemetry)
        /\ UNCHANGED <<pc, current_movement, speed, target_altitude, verdict,
                       command, nsent>>

NextLongRun ==
    \/ LongRunCommand
    \/ LongRunParseFail
    \/ Send
    \/ SendClosed

SpecLongRun == InitAfterLowBattery /\ [][NextLongRun]_vars

(* ============================== claims ================================ *)

Movements == {"fwd", "rev"}

Opposite(m) == IF m = "fwd" THEN "rev" ELSE "fwd"

HasTelemetry(r) ==
    /\ r # None
    /\ r.json
    /\ r.has_status
    /\ r.status # "crashed"
    /\ r.has_telemetry

Undecodable(r) == HasTelemetry(r) /\ parse_telemetry(r.telemetry) = None

StatusCrashed(r) == r # None /\ r.json /\ r.has_status /\ r.status = "crashed"

VerdictCrashed(r) ==
    /\ HasTelemetry(r)
    /\ parse_telemetry(r.telemetry) # None
    /\ check_crash(parse_telemetry(r.telemetry)) = "True"

CrashSignalled == StatusCrashed(response) \/ VerdictCrashed(response)

Answering == pc = "send"

(* C1: in every reachable state speed is an integer in 1..5 and            *)
(* current_movement is one of the two direction tokens, and every command  *)
(* built carries a speed in 1..5 and one of the two tokens.                *)
C1_SpeedAndMovementInDomain ==
    /\ speed \in 1..5
    /\ current_movement \in Movements
    /\ command # None =>
          /\ command.speed \in 1..5
          /\ command.movement \in Movements

C1_Witness ==
    /\ nsent = 3
    /\ parsed.battery >= 2000
    /\ Abs(parsed.gyro[1]) >= 80
    /\ prev.speed = 1
    /\ command.speed = 1

(* C2: once the last message received has status "crashed" or a record     *)
(* check_crash answers True for, the loop has ended, nothing more is       *)
(* received and nothing more is sent; a command is about to be sent only   *)
(* for a message that is not "crashed" and whose record got False.         *)
C2_CrashEndsSession ==
    /\ [](CrashSignalled => pc = "done")
    /\ [][CrashSignalled => nrecv' = nrecv /\ nsent' = nsent]_vars
    /\ [][CrashSignalled' /\ nrecv' # nrecv => nsent' = nsent]_vars
    /\ [](Answering =>
            /\ ~StatusCrashed(response)
            /\ check_crash(parsed) = "False"
            /\ verdict = "False")

C2_Witness ==
    /\ pc = "done"
    /\ nsent = 2
    /\ nrecv = 3
    /\ VerdictCrashed(response)
    /\ verdict = "True"

(* C3: a command is sent only right after a receive and at most once per   *)
(* receive, never for a message that signals crash or whose telemetry does *)
(* not decode; the number sent never exceeds the number received.          *)
C3_AtMostOneCommandPerEnvelope ==
    /\ [](nsent <= nrecv)
    /\ [](Answering => nsent < nrecv)
    /\ [][nsent' # nsent =>
            /\ nsent' = nsent + 1
            /\ Answering
            /\ ~Answering'
            /\ nrecv' = nrecv]_vars
    /\ [][~Answering /\ Answering' => nrecv' = nrecv + 1]_vars
    /\ [](CrashSignalled \/ Undecodable(response) => ~Answering)

C3_Witness ==
    /\ nrecv = 3
    /\ nsent = 1
    /\ pc = "recv"
    /\ Undecodable(response)

(* C4: receiving a message whose telemetry does not decode sends nothing,  *)
(* leaves speed, movement and the last command as they were, and leaves    *)
(* the loop waiting for the next message.                                  *)
C4_DecodeFailureSkipsCycle ==
    [][nrecv' = nrecv + 1 /\ Undecodable(response') =>
          /\ pc' = "recv"
          /\ nsent' = nsent
          /\ speed' = speed
          /\ current_movement' = current_movement
          /\ command' = command
          /\ parsed' = None]_vars

C4_Witness ==
    /\ nrecv = 2
    /\ nsent = 1
    /\ Undecodable(response)
    /\ pc = "recv"
    /\ speed = 2
    /\ current_movement = "rev"

OddGyro(r) ==
    /\ HasTelemetry(r)
    /\ r.telemetry.matched
    /\ AllOk(r.telemetry)
    /\ Len(r.telemetry.gyr) # 3

(* C5: a telemetry string whose gyro list does not have exactly three      *)
(* components decodes to no record, the cycle is skipped and the loop      *)
(* goes on; check_crash is never called on it.                             *)
C5_OddGyroIsDecodeFailure ==
    OddGyro(response) => parsed = None /\ pc = "recv"

CrashConditions(p) ==
    \/ p.battery <= 0
    \/ p.sensor = "RED" /\ p.y > 300
    \/ p.sensor = "YELLOW" /\ p.y > 100000
    \/ p.y < 0
    \/ Abs(p.x) > 10000000
    \/ p.gyro[1] * p.gyro[1] + p.gyro[2] * p.gyro[2]
         + p.gyro[3] * p.gyro[3] > 10000

(* C6: for a record with three gyro components check_crash returns True    *)
(* exactly when battery <= 0, or RED and y > 3, or YELLOW and y > 1000, or  *)
(* y < 0, or |x| > 100000, or gx^2 + gy^2 + gz^2 > 1, and False otherwise.  *)
C6_CheckCrashConditions ==
    pc = "returned" =>
        /\ verdict \in {"True", "False"}
        /\ (verdict = "True") <=> CrashConditions(parsed)
        /\ parsed.battery = 0 => verdict = "True"

C6_Witness ==
    /\ pc = "returned"
    /\ parsed.sensor = "RED"
    /\ parsed.y = 300
    /\ parsed.battery = 2000
    /\ parsed.gyro = <<60, 80, 0>>
    /\ parsed.x = 10000000
    /\ verdict = "False"

(* C7: for a record that is not crashed, with battery not below 20 and     *)
(* |gx| < 0.5, the cycle raises speed to min(5, previous speed + 1).       *)
C7_CalmTiltAlwaysSpeedsUp ==
    Answering /\ parsed.battery >= 2000 /\ Abs(parsed.gyro[1]) < 50 =>
        /\ speed = Min(5, prev.speed + 1)
        /\ command.speed = speed

(* C8: with x > 90000 the command's movement and the remembered movement   *)
(* are rev, with x < -90000 they are fwd, whatever the movement was and    *)
(* whatever the tilt branch did; otherwise they are what the tilt branch   *)
(* left.                                                                   *)
C8_LateralOverridePrecedence ==
    Answering =>
        /\ command.movement = current_movement
        /\ parsed.x > 9000000 => current_movement = "rev"
        /\ parsed.x < -9000000 => current_movement = "fwd"
        /\ Abs(parsed.x) <= 9000000 =>
              current_movement =
                  TiltMovement(prev.movement, parsed.battery, parsed.gyro[1])

C8_Witness ==
    /\ Answering
    /\ parsed.x = 9000001
    /\ parsed.battery = 5000
    /\ parsed.gyro[1] = 80
    /\ prev.movement = "rev"
    /\ command.movement = "rev"

(* C9: for a record that is not crashed with battery < 20 the command's    *)
(* speed and the remembered speed are 1 whatever the previous speed and    *)
(* gx were, and movement differs from the previous movement only if        *)
(* |x| > 90000.                                                            *)
C9_LowBatteryOverride ==
    Answering /\ parsed.battery < 2000 =>
        /\ speed = 1
        /\ command.speed = 1
        /\ Abs(parsed.x) <= 9000000 =>
              /\ current_movement = prev.movement
              /\ command.movement = prev.movement

C9_Witness ==
    /\ Answering
    /\ parsed.battery = 1500
    /\ parsed.gyro[1] = 0
    /\ prev.speed = 5
    /\ command.speed = 1

(* C10: for a record that is not crashed with battery >= 20 and            *)
(* |gx| >= 0.8, speed becomes max(1, previous speed - 1) and movement is   *)
(* the opposite of the previous movement unless |x| > 90000 forces it.     *)
C10_AggressiveTiltReversal ==
    Answering /\ parsed.battery >= 2000 /\ Abs(parsed.gyro[1]) >= 80 =>
        /\ speed = Max(1, prev.speed - 1)
        /\ command.speed = speed
        /\ Abs(parsed.x) <= 9000000 =>
              /\ current_movement = Opposite(prev.movement)
              /\ command.movement = Opposite(prev.movement)
        /\ parsed.x > 9000000 => command.movement = "rev"
        /\ parsed.x < -9000000 => command.movement = "fwd"

C10_Witness ==
    /\ Answering
    /\ parsed.battery = 2000
    /\ parsed.gyro[1] = 80
    /\ parsed.x = 9000000
    /\ prev = [speed |-> 2, movement |-> "rev"]
    /\ command = [speed |-> 1, altitude |-> 100, movement |-> "fwd"]

(* C11: for a record that is not crashed with battery >= 20 and            *)
(* 0.5 <= |gx| < 0.8 the cycle leaves speed as it was, and movement as it  *)
(* was unless |x| > 90000 forces it.                                       *)
C11_ModerateTiltChangesNothing ==
    Answering /\ parsed.battery >= 2000
              /\ Abs(parsed.gyro[1]) >= 50 /\ Abs(parsed.gyro[1]) < 80 =>
        /\ speed = prev.speed
        /\ command.speed = prev.speed
        /\ command.movement = current_movement
        /\ Abs(parsed.x) <= 9000000 => current_movement = prev.movement
        /\ parsed.x > 9000000 => current_movement = "rev"
        /\ parsed.x < -9000000 => current_movement = "fwd"

C11_Witness ==
    /\ Answering
    /\ parsed.battery = 5000
    /\ parsed.gyro[1] = -50
    /\ parsed.x = -9000000
    /\ prev = [speed |-> 4, movement |-> "rev"]
    /\ command = [speed |-> 4, altitude |-> 100, movement |-> "rev"]

Clamp(v, lo, hi) == IF v < lo THEN lo ELSE IF v > hi THEN hi ELSE v

ExpectedTarget(sensor) ==
    CASE sensor = "RED" -> 2
      [] sensor = "YELLOW" -> 999
      [] OTHER -> 2000

ExpectedAltitude(sensor, y) ==
    LET d == 100 * ExpectedTarget(sensor) - y
        mag == IF d < 0 THEN -d ELSE d
        max_delta == Clamp(mag \div 200, 10, 100)
        truncated == IF d < 0 THEN -(mag \div 100) ELSE mag \div 100
    IN  IF mag < 1000 THEN 0 ELSE Clamp(truncated, -max_delta, max_delta)

(* C12: the altitude of a command is the function of sensor and y alone    *)
(* given by target 2 / 999 / 2000, delta_y = target - y, max_delta =       *)
(* clamp(floor(|delta_y| / 2), 10, 100), clamp(truncate(delta_y),          *)
(* -max_delta, max_delta), and 0 when |delta_y| < 10, whatever the target, *)
(* speed and movement of the cycle before were.                            *)
C12_AltitudeFromSensorAndY ==
    Answering =>
        /\ command.altitude = ExpectedAltitude(parsed.sensor, parsed.y)
        /\ target_altitude = ExpectedTarget(parsed.sensor)

C12_Witness ==
    /\ Answering
    /\ parsed.sensor = "YELLOW"
    /\ parsed.y = 97850
    /\ prev = [speed |-> 5, movement |-> "rev"]
    /\ command.altitude = 10

(* C16: in every command |altitude| <= 100 and |altitude| <=               *)
(* |target - y|, the altitude is nonzero exactly when |target - y| >= 10,  *)
(* and a nonzero altitude has the sign of target - y.                      *)
C16_AltitudeNeverOvershoots ==
    Answering =>
        LET d == 100 * target_altitude - parsed.y
            a == command.altitude
        IN  /\ Abs(a) <= 100
            /\ 100 * Abs(a) <= Abs(d)
            /\ (a # 0) <=> (Abs(d) >= 1000)
            /\ a > 0 => d > 0
            /\ a < 0 => d < 0

C16_Witness ==
    /\ Answering
    /\ parsed.sensor = "GREEN"
    /\ parsed.y = 199500
    /\ target_altitude = 2000
    /\ command.altitude = 0

(* C13: a message is received only when no command is waiting to be sent,  *)
(* so the command for message n goes out before message n + 1 comes in and *)
(* commands go out in the order of their messages; the command waiting is  *)
(* the one built for the last message received; speed and movement change  *)
(* only while a command is built, so each command is built from the speed  *)
(* and movement the last answered message left.                            *)
C13_StrictlySequential ==
    /\ [][nrecv' # nrecv => nrecv' = nrecv + 1 /\ ~Answering]_vars
    /\ [](Answering =>
            /\ HasTelemetry(response)
            /\ parsed = parse_telemetry(response.telemetry)
            /\ command.speed = speed
            /\ command.movement = current_movement)
    /\ [][nsent' # nsent =>
            /\ Answering
            /\ nrecv' = nrecv
            /\ response' = response
            /\ command' = command
            /\ speed' = speed
            /\ current_movement' = current_movement]_vars
    /\ [][~Answering' =>
            speed' = speed /\ current_movement' = current_movement]_vars
    /\ [][~Answering /\ Answering' =>
            /\ prev' = [speed |-> speed, movement |-> current_movement]
            /\ command'.speed =
                   SpeedUpdate(speed, parsed'.battery, parsed'.gyro[1])
            /\ command'.movement =
                   LateralOverride(
                       TiltMovement(current_movement, parsed'.battery,
                                    parsed'.gyro[1]),
                       parsed'.x)]_vars

C13_Witness ==
    /\ Answering
    /\ nrecv = 3
    /\ nsent = 2
    /\ prev = [speed |-> 5, movement |-> "fwd"]
    /\ command = [speed |-> 4, altitude |-> 100, movement |-> "rev"]

Reweather(r, w, d) ==
    [r EXCEPT !.telemetry.wind = Tok(w), !.telemetry.dust = Tok(d)]

Decoded(r) == HasTelemetry(r) /\ parse_telemetry(r.telemetry) # None

(* C14: had the last message carried any other wind and dust values, the   *)
(* loop would have taken the same branch on it, check_crash would have     *)
(* returned the same verdict, and the command built from the speed and     *)
(* movement held before would be the very command built, leaving the same  *)
(* speed and movement.  Two runs fed messages that differ only in wind and *)
(* dust therefore stay in step.                                            *)
C14_WindAndDustIgnored ==
    Decoded(response) =>
        \A w \in WindVals, d \in DustVals :
            LET r2 == Reweather(response, w, d)
                p2 == parse_telemetry(r2.telemetry)
            IN  /\ p2 # None
                /\ Dispatch(r2) = Dispatch(response)
                /\ Dispatch(response) \in {"crash", "command"} =>
                       check_crash(p2) = verdict
                /\ Dispatch(response) = "command" =>
                       /\ command =
                              [speed |->
                                   SpeedUpdate(prev.speed, p2.battery,
                                               p2.gyro[1]),
                               altitude |->
                                   AltitudeCmd(TargetAltitude(p2.sensor),
                                               p2.y),
                               movement |->
                                   LateralOverride(
                                       TiltMovement(prev.movement,
                                                    p2.battery, p2.gyro[1]),
                                       p2.x)]
                       /\ speed = command.speed
                       /\ current_movement = command.movement

C14_Witness ==
    /\ Answering
    /\ nrecv = 2
    /\ parsed.wind = 5
    /\ parsed.dust = 5
    /\ prev.speed = 4
    /\ command.speed = 5

(* C15: in a fresh session a first message with x = 0, y = 0,              *)
(* battery = 50, gyro = (0.9, 0, 0), sensor GREEN is not crashed and is    *)
(* answered with speed 2, altitude 100, movement rev, which is also the    *)
(* speed and movement remembered.                                          *)
C15_EndToEndScenario ==
    nrecv = 1 /\ response = Env("active", ScenarioTelemetry) =>
        /\ verdict = "False"
        /\ prev = [speed |-> 3, movement |-> "fwd"]
        /\ command = [speed |-> 2, altitude |-> 100, movement |-> "rev"]
        /\ speed = 2
        /\ current_movement = "rev"
        /\ pc = "send" \/ nsent = 1 \/ pc = "done"

C15_Witness ==
    /\ nrecv = 1
    /\ nsent = 1
    /\ response = Env("active", ScenarioTelemetry)
    /\ command = [speed |-> 2, altitude |-> 100, movement |-> "rev"]

(* C17: every command built for a record with sensor RED has altitude 0,   *)
(* and every command built for a record with sensor YELLOW has             *)
(* altitude >= 0.                                                          *)
C17_NoDescentInRedOrYellow ==
    Answering =>
        /\ parsed.sensor = "RED" =>
              /\ parsed.y >= 0 /\ parsed.y <= 300
              /\ command.altitude = 0
        /\ parsed.sensor = "YELLOW" =>
              /\ parsed.y >= 0 /\ parsed.y <= 100000
              /\ command.altitude >= 0

C17_Witness ==
    /\ Answering
    /\ parsed.sensor = "YELLOW"
    /\ parsed.y = 100000
    /\ target_altitude = 999
    /\ command.altitude = 0

(* C18: no step raises speed by more than 1, and speed falls by more than  *)
(* 1 only in a step that builds a command for a record with battery < 20;  *)
(* so, counting from a low-battery cycle that left speed 1, speed is at    *)
(* most 1 plus the number of later cycles, and a command carries speed 5   *)
(* no sooner than the fourth later cycle.                                  *)
C18_SpeedRisesOneStepAtATime ==
    /\ [][speed' <= speed + 1]_vars
    /\ [][speed' # speed => ~Answering /\ Answering']_vars
    /\ [][speed' < speed - 1 => parsed'.battery < 2000]_vars
    /\ [](speed <= nrecv)
    /\ [](command.speed = 5 => nrecv >= 5)

C18_Witness ==
    /\ Answering
    /\ nrecv = 5
    /\ nsent = 4
    /\ prev.speed = 4
    /\ command.speed = 5

NotJson(r) == r # None /\ ~r.json

(* C19: receiving a message that is not valid JSON sends nothing, leaves   *)
(* speed, movement, the last record and the last command as they were and  *)
(* leaves the loop waiting, where the next message can be received and     *)
(* answered; a closed connection ends the loop, and once the loop has      *)
(* ended nothing is received or sent.                                      *)
C19_InvalidJsonSkippedClosedEnds ==
    /\ [][nrecv' = nrecv + 1 /\ NotJson(response') =>
            /\ pc' = "recv"
            /\ nsent' = nsent
            /\ speed' = speed
            /\ current_movement' = current_movement
            /\ parsed' = parsed
            /\ command' = command]_vars
    /\ [](NotJson(response) /\ pc # "done" =>
            /\ pc = "recv"
            /\ nrecv < MaxEnvelopes => ENABLED RecvCommand)
    /\ [][nrecv' = nrecv /\ pc # "done" /\ pc' = "done" =>
            /\ nsent' = nsent
            /\ speed' = speed
            /\ current_movement' = current_movement]_vars
    /\ [][pc = "done" =>
            pc' = "done" /\ nrecv' = nrecv /\ nsent' = nsent]_vars

C19_Witness ==
    /\ nrecv = 2
    /\ nsent = 1
    /\ NotJson(response)
    /\ pc = "recv"
    /\ speed = 4
    /\ command.speed = 4

====
